---- MODULE Spec2Model ----
(***************************************************************************)
(* The motion-triggered recording controller of libcamera_motionvid.cpp:   *)
(* the vote window and its debounced decision, the Idle/Recording state    *)
(* machine with its hold counter and output path, and the queue of frames  *)
(* handed to the encoder (EncodeBuffer / encodeBufferDone).                *)
(*                                                                         *)
(* One step of the model is one iteration of event_loop's for-loop (or one *)
(* input-done callback of the encoder).  The variables of the first group  *)
(* are the program's; those of the second group only record what the last  *)
(* iteration did and what has happened so far, so that properties can      *)
(* speak about it.                                                         *)
(***************************************************************************)
EXTENDS Integers, Sequences, FiniteSets, TLC

\* ---------------------------------------------------------------- bounds
MaxTicks == 5        \* loop iterations that process a frame
MaxGap == 5          \* largest configured --gap
MaxMinframes == 3    \* largest configured --minframes
MaxClock == 2        \* distinct wall-clock seconds seen by std::time
MaxInflight == 2     \* inputs the encoder holds before the loop waits for it
TimeoutMs == 1000    \* the configured --timeout, in milliseconds
FramesOpt == 2       \* the configured --frames, where one is given
MaxSignals == 2
MaxSeq == 60
MaxCaptures == 2
SeqJump == 25

\* ------------------------------------------------------- program constants
KeyNone == 0         \* int key = 0
KeyNewline == 10     \* '\n'
KeyLowerX == 120     \* 'x'
KeyUpperX == 88      \* 'X'
SIGUSR1 == 10
SIGUSR2 == 12
RearmFrames == 50

Keys == {KeyNone, KeyNewline, KeyLowerX, KeyUpperX}
SaveDir == "clips"                   \* options->savedir
OrigOutput == <<"video.h264">>       \* options->output at start-up
\* options->frames and options->timeout: a run limited by time, one by frames
Options == {[frames |-> 0, timeout |-> TimeoutMs], [frames |-> FramesOpt, timeout |-> TimeoutMs]}

\* The calls one transition makes, in order (lines 266-281 and 289-296).
TransitionCalls == <<"StopCamera", "Teardown", "OutputCreate", "SetEncodeOutputReadyCallback",
                     "ConfigureVideo", "StartEncoder", "StartCamera">>
\* The calls of a transition that can throw, and "none" for a transition
\* that succeeds.
FailPoints == {"none", "StopCamera", "Teardown", "OutputCreate", "ConfigureVideo",
               "StartEncoder", "StartCamera"}

VARIABLES
    \* program state
    pc,                    \* "running" | "done" (event_loop returned) | "error" (exception)
    gap,                   \* int gap = options->gap
    minframes,             \* int minframes = options->minframes
    origoutput,            \* std::string origoutput
    output,                \* options->output
    count,                 \* the for-loop's counter; also names the completed request
    frames,                \* int frames[10000], the slots a run of MaxTicks frames can touch
    frame_num,             \* write cursor into frames
    motion_test,           \* the debounced decision
    motion_detected,       \* TRUE = Recording, FALSE = Idle
    frame_count,           \* the hold counter
    movie_num,             \* session counter
    encoder_,              \* 0 = no encoder, n = the n-th Encoder instance
    inflight,              \* inputs given to encoder_ and not yet acknowledged by it
    encode_buffer_queue_,  \* std::queue<CompletedRequestPtr>
    options,               \* options->frames, options->timeout
    \* record of the run
    processed,             \* number of frames that reached the vote window
    falseRun,              \* number of frames processed since the last true vote
    window,                \* the votes observed since the previous computation
    computed,              \* the last iteration computed the debounced decision
    fired,                 \* transition fired by the last iteration: "none" | "start" | "stop"
    forwarded,             \* the last iteration called EncodeBuffer and ShowPreview
    lastTransition,        \* the most recent transition fired, "none" before the first
    prevTransition,        \* the transition fired before that one
    starts,                \* number of Idle->Recording transitions fired
    recFrames,             \* iterations begun in Recording since the last Idle->Recording
    holdBefore,            \* frame_count at the start of the last iteration
    recordingBefore,       \* motion_detected at the start of the last iteration
    lastOp,                \* "init" | "tick" | "push" | "ack" | "quit" | "halt"
    qBefore,               \* the queue as it was before the last push
    pushed,                \* every request pushed, in push order
    acked,                 \* number of acknowledgements that popped an entry
    lateSeen,              \* now - start_time > timeout held at the last frame event
    calls,                 \* the pipeline calls the last iteration made, in order
    failedAt,              \* the call of the last iteration that threw, or "none"
    \* the two threads, step by step
    ebpc,                  \* main thread: next step of EncodeBuffer's tail, 0 outside it
    tpc,                   \* main thread: next call of the transition, 0 outside it
    dpc,                   \* encoder thread: "idle" | "locked" (inside encodeBufferDone)
    encode_buffer_queue_mutex_,    \* "free" | "main" | "encoder"
    outputObj,             \* the Output object the unique_ptr output owns (n-th created)
    encode_output_ready_callback_, \* the Output object the app's callback is bound to
    encoderCallback,       \* the Output object encoder_'s copy of the callback is bound to
    encoded,               \* encoded outputs encoder_ has still to deliver
    delivered,             \* the last OutputReady call: "none" | "alive" | "destroyed"
    \* signals
    signal_received,       \* static int signal_received
    spc,                   \* event loop: "keypress" | "test1" | "test2" | "clear" | "act"
    polledKey,             \* int key of get_key_or_signal and of the loop
    stopOwed,              \* a SIGUSR2 was delivered and the loop has not halted since
    trigOwed,              \* a SIGUSR1 was delivered and Signal() was not called since
    sent,                  \* number of signals delivered
    \* libcamera_motion's loop
    stream,                \* the configured stream: "video" | "still"
    sequence,              \* completed_request->sequence of the next request
    last_capture_frame,    \* unsigned int last_capture_frame
    last_capture,          \* unsigned int last_capture
    curSeq,                \* current_capture_frame of the last video frame
    prevCaptureFrame,      \* last_capture_frame before the last video frame
    voteSeen               \* motion_val of the last video frame

progVars == <<pc, gap, minframes, origoutput, output, count, frames, frame_num,
              motion_test, motion_detected, frame_count, movie_num, encoder_,
              inflight, encode_buffer_queue_, options>>
tickRecord == <<processed, falseRun, window, computed, fired, forwarded, lastTransition, prevTransition, starts,
                recFrames, holdBefore, recordingBefore>>
queueRecord == <<qBefore, pushed, acked>>
iterRecord == <<lateSeen, calls, failedAt>>
threadVars == <<ebpc, tpc, dpc, encode_buffer_queue_mutex_, outputObj,
                encode_output_ready_callback_, encoderCallback, encoded, delivered>>
signalVars == <<signal_received, spc, polledKey, stopOwed, trigOwed, sent>>
motionVars == <<stream, sequence, last_capture_frame, last_capture, curSeq,
                prevCaptureFrame, voteSeen>>
fineVars == <<threadVars, signalVars, motionVars>>
vars == <<progVars, tickRecord, queueRecord, lastOp, iterRecord, fineVars>>

\* ------------------------------------------------------------ vote window
BoolToInt(b) == IF b THEN 1 ELSE 0

\* frames[frame_num] = motion_val;
StoreVote(f, fn, motion_val) == [f EXCEPT ![fn] = BoolToInt(motion_val)]

\* for (int i = 0; i < n; i++) sum += frames[i];
RECURSIVE SumFrames(_, _)
SumFrames(f, n) == IF n <= 0 THEN 0 ELSE SumFrames(f, n - 1) + f[n - 1]

\* if (frame_num == gap-1)
WindowFull(fn, g) == fn = g - 1

\* motion_test = (sum > 0) when the window is full, else left alone
Debounce(f, fn, g, mt) == IF WindowFull(fn, g) THEN SumFrames(f, g) > 0 ELSE mt

\* frame_num = 0 inside the if, then frame_num++ after it
NextCursor(fn, g) == (IF WindowFull(fn, g) THEN 0 ELSE fn) + 1

\* ---------------------------------------------------------- state machine
StartGuardNoEdge(mt, md) == mt
\* if (motion_test && !motion_detected)
StartGuard(mt, md) == mt /\ ~md

StopGuardNoHold(mt, md, fc) == ~mt /\ md
\* else if (!motion_test && motion_detected && frame_count == 0)
StopGuard(mt, md, fc) == ~mt /\ md /\ fc = 0

ForwardsAlways(isStart, isStop) == TRUE
\* bool capture = true; each transition sets it false; else if (capture) { EncodeBuffer; ShowPreview }
Forwards(isStart, isStop) == ~isStart /\ ~isStop

RecordingAfterStopForgets(isStart, isStop, md) == IF isStart THEN TRUE ELSE md
\* motion_detected = true on Idle->Recording, = false on Recording->Idle
RecordingAfter(isStart, isStop, md) == IF isStart THEN TRUE ELSE IF isStop THEN FALSE ELSE md

\* if (frame_count > 0) frame_count--;
HoldDecrement(fc) == IF fc > 0 THEN fc - 1 ELSE fc

\* The position of a call in the transition sequence; past its end for "none".
RECURSIVE IndexOf(_, _, _)
IndexOf(seq, call, i) ==
    IF i > Len(seq) THEN i ELSE IF seq[i] = call THEN i ELSE IndexOf(seq, call, i + 1)

\* The calls made when the call failAt throws: those before it, and it.
CallsUntil(seq, failAt) ==
    SubSeq(seq, 1, IF IndexOf(seq, failAt, 1) > Len(seq) THEN Len(seq) ELSE IndexOf(seq, failAt, 1))

\* Whether `call` returned before failAt threw.
Completed(seq, failAt, call) == IndexOf(seq, call, 1) < IndexOf(seq, failAt, 1)

OnThrowContinue(p) == p
\* event_loop has no try block: an exception leaves the loop, main catches it.
OnThrow(p) == "error"

\* main: return -1 from the catch block, 0 after event_loop returned.
ExitStatus(p) == IF p = "error" THEN -1 ELSE 0

TimeoutIgnored(opts, late) == FALSE
\* bool timeout = !options->frames && options->timeout && (now - start_time > timeout ms)
Timeout(opts, late) == opts.frames = 0 /\ opts.timeout # 0 /\ late

\* bool frameout = options->frames && count >= options->frames
Frameout(opts, c) == opts.frames # 0 /\ c >= opts.frames

\* if (timeout || frameout || key == 'x' || key == 'X')
Halts(opts, late, c, key) ==
    Timeout(opts, late) \/ Frameout(opts, c) \/ key = KeyLowerX \/ key = KeyUpperX

\* savedir + "/" + put_time(%Y-%m-%d_%H-%M-%S) + "-motionmov.h264"
MotionFilename(dir, t) == <<dir, "/", t, "-motionmov.h264">>

StopOutputKept(orig, out) == out
\* options->output = origoutput;
StopOutput(orig, out) == orig

\* ------------------------------------------------------------------ queue
\* encode_buffer_queue_.push(completed_request);
Push(q, r) == Append(q, r)

AckOutcomeSilent(q) == IF q = <<>> THEN "noop" ELSE "pop"
\* if (encode_buffer_queue_.empty()) throw std::runtime_error(...); encode_buffer_queue_.pop();
AckOutcome(q) == IF q = <<>> THEN "throw" ELSE "pop"

PopNewest(q) == SubSeq(q, 1, Len(q) - 1)
\* encode_buffer_queue_.pop();
Pop(q) == Tail(q)

\* ------------------------------------------------------------------- Init
\* The state at the top of the for-loop's first iteration.  gap and minframes
\* are the option values, which the program does not validate (gap = 0 is
\* accepted); both stay far below INT_MAX here, so the unsigned-to-int
\* conversions of lines 188 and 192 keep them.
Init ==
    /\ pc = "running"
    /\ gap \in 0..MaxGap
    /\ minframes \in 0..MaxMinframes
    /\ origoutput = OrigOutput
    /\ output = origoutput
    /\ count = 0
    /\ frames = [i \in 0..MaxTicks |-> 0]
    /\ frame_num = 0
    /\ motion_test = FALSE
    /\ motion_detected = FALSE
    /\ frame_count = 0
    /\ movie_num = 0
    /\ encoder_ = 1
    /\ inflight = 0
    /\ encode_buffer_queue_ = <<>>
    /\ options \in Options
    /\ lateSeen = FALSE
    /\ calls = <<>>
    /\ failedAt = "none"
    /\ processed = 0
    /\ falseRun = 0
    /\ window = <<>>
    /\ computed = FALSE
    /\ fired = "none"
    /\ forwarded = FALSE
    /\ lastTransition = "none"
    /\ prevTransition = "none"
    /\ starts = 0
    /\ recFrames = 0
    /\ holdBefore = 0
    /\ recordingBefore = FALSE
    /\ lastOp = "init"
    /\ qBefore = <<>>
    /\ pushed = <<>>
    /\ acked = 0
    /\ ebpc = 0
    /\ tpc = 0
    /\ dpc = "idle"
    /\ encode_buffer_queue_mutex_ = "free"
    /\ outputObj = 1
    /\ encode_output_ready_callback_ = 1
    /\ encoderCallback = 1
    /\ encoded = 0
    /\ delivered = "none"
    /\ signal_received = 0
    /\ spc = "keypress"
    /\ polledKey = KeyNone
    /\ stopOwed = FALSE
    /\ trigOwed = FALSE
    /\ sent = 0
    /\ stream = "video"
    /\ sequence = 0
    /\ last_capture_frame = 0
    /\ last_capture = 0
    /\ curSeq = 0
    /\ prevCaptureFrame = 0
    /\ voteSeen = FALSE

\* ---------------------------------------------------------------- actions
\* app.Wait() returned Quit: return.
Quit ==
    /\ pc = "running"
    /\ pc' = "done"
    /\ lastOp' = "quit"
    /\ UNCHANGED <<gap, minframes, origoutput, output, count, frames, frame_num,
                   motion_test, motion_detected, frame_count, movie_num, encoder_,
                   inflight, encode_buffer_queue_, options, tickRecord, queueRecord,
                   lateSeen, fineVars>>
    /\ calls' = <<>>
    /\ failedAt' = "none"

\* timeout || frameout || key == 'x' || key == 'X': StopCamera, StopEncoder, return.
\* late: now - start_time exceeds the configured timeout at this frame event.
Halt(key, late) ==
    /\ pc = "running"
    /\ Halts(options, late, count, key)
    /\ pc' = "done"
    /\ encoder_' = 0
    /\ inflight' = 0
    /\ lastOp' = "halt"
    /\ lateSeen' = late
    /\ calls' = <<"StopCamera", "StopEncoder">>
    /\ failedAt' = "none"
    /\ UNCHANGED <<gap, minframes, origoutput, output, count, frames, frame_num,
                   motion_test, motion_detected, frame_count, movie_num,
                   encode_buffer_queue_, options, tickRecord, queueRecord, fineVars>>

\* One iteration that reaches the vote window and the state machine.
\* motion_val: the frame's vote; hasBuffer: the request carries a mapped buffer
\* for the video stream; now: the second std::time returns; failAt: the call
\* of the transition that throws.  The last three are drawn only on the
\* iterations that read them.
Tick(key, late, motion_val) ==
    /\ pc = "running"
    /\ count < MaxTicks
    /\ ~Halts(options, late, count, key)
    /\ LET fr == StoreVote(frames, frame_num, motion_val)
           full == WindowFull(frame_num, gap)
           mt == Debounce(fr, frame_num, gap, motion_test)
           isStart == StartGuard(mt, motion_detected)
           isStop == ~isStart /\ StopGuard(mt, motion_detected, frame_count)
           fwd == Forwards(isStart, isStop)
           trans == isStart \/ isStop
           md == RecordingAfter(isStart, isStop, motion_detected)
           fc == IF isStart THEN minframes ELSE frame_count
       IN  \E hasBuffer \in (IF fwd THEN BOOLEAN ELSE {TRUE}),
              now \in (IF isStart THEN 1..MaxClock ELSE {1}),
              failAt \in (IF trans THEN FailPoints ELSE {"none"}) :
           LET noBuffer == fwd /\ ~hasBuffer    \* EncodeBuffer: "no buffer to encode"
               throws == noBuffer \/ failAt # "none"
               done(call) == Completed(TransitionCalls, failAt, call)
               newEnc == trans /\ done("StartEncoder")
               enc == IF newEnc THEN encoder_ + 1 ELSE encoder_
               pend == IF newEnc THEN 0 ELSE inflight
           IN
           /\ fwd => pend < MaxInflight
           /\ frames' = fr
           /\ motion_test' = mt
           /\ frame_num' = NextCursor(frame_num, gap)
           /\ movie_num' = IF isStart THEN movie_num + 1 ELSE movie_num
           /\ motion_detected' = md
           /\ output' = IF trans /\ ~done("Teardown") THEN output
                        ELSE IF isStart THEN MotionFilename(SaveDir, now)
                        ELSE IF isStop THEN StopOutput(origoutput, output)
                        ELSE output
           /\ encoder_' = enc
           /\ IF throws
              THEN /\ pc' = OnThrow(pc)
                   /\ frame_count' = fc
                   /\ count' = count
                   /\ inflight' = pend
                   /\ encode_buffer_queue_' = encode_buffer_queue_
                   /\ forwarded' = FALSE
                   /\ lastOp' = "tick"
                   /\ UNCHANGED <<qBefore, pushed>>
              ELSE /\ pc' = "running"
                   /\ frame_count' = HoldDecrement(fc)
                   /\ count' = count + 1
                   /\ inflight' = IF fwd THEN pend + 1 ELSE pend
                   /\ encode_buffer_queue_' =
                          IF fwd THEN Push(encode_buffer_queue_, count)
                          ELSE encode_buffer_queue_
                   /\ forwarded' = fwd
                   /\ lastOp' = IF fwd THEN "push" ELSE "tick"
                   /\ qBefore' = IF fwd THEN encode_buffer_queue_ ELSE qBefore
                   /\ pushed' = IF fwd THEN Append(pushed, count) ELSE pushed
           /\ lateSeen' = late
           /\ failedAt' = failAt
           /\ calls' = IF trans THEN CallsUntil(TransitionCalls, failAt)
                       ELSE IF noBuffer THEN <<"EncodeBuffer">>
                       ELSE <<"EncodeBuffer", "ShowPreview">>
           /\ processed' = processed + 1
           /\ falseRun' = IF motion_val THEN 0 ELSE falseRun + 1
           /\ window' = IF computed THEN <<motion_val>> ELSE Append(window, motion_val)
           /\ computed' = full
           /\ fired' = IF isStart THEN "start" ELSE IF isStop THEN "stop" ELSE "none"
           /\ lastTransition' = IF isStart THEN "start" ELSE IF isStop THEN "stop"
                                ELSE lastTransition
           /\ prevTransition' = IF isStart \/ isStop THEN lastTransition ELSE prevTransition
           /\ starts' = IF isStart THEN starts + 1 ELSE starts
           /\ recFrames' = IF isStart THEN 0
                           ELSE IF motion_detected /\ ~isStop THEN recFrames + 1
                           ELSE recFrames
           /\ holdBefore' = frame_count
           /\ recordingBefore' = motion_detected
    /\ UNCHANGED <<gap, minframes, origoutput, options, acked, fineVars>>

\* encodeBufferDone, the body of the input-done callback.
encodeBufferDone ==
    LET outcome == AckOutcome(encode_buffer_queue_)
    IN  /\ pc' = IF outcome = "throw" THEN "error" ELSE pc
        /\ encode_buffer_queue_' = IF outcome = "pop" THEN Pop(encode_buffer_queue_)
                                   ELSE encode_buffer_queue_
        /\ acked' = IF outcome = "pop" THEN acked + 1 ELSE acked
        /\ lastOp' = "ack"
        /\ UNCHANGED <<gap, minframes, origoutput, output, count, frames, frame_num,
                       motion_test, motion_detected, frame_count, movie_num, encoder_,
                       options, tickRecord, qBefore, pushed, lateSeen, fineVars>>
        /\ calls' = <<>>
        /\ failedAt' = "none"

\* The encoder's input-done callback, for an input the current encoder holds.
EncodeBufferDone ==
    /\ pc = "running"
    /\ inflight > 0
    /\ inflight' = inflight - 1
    /\ encodeBufferDone

\* An input-done callback for no input the encoder holds (an unexpected
\* completion signal).
UnsolicitedDone ==
    /\ pc = "running"
    /\ encoder_ # 0
    /\ inflight = 0
    /\ inflight' = 0
    /\ encodeBufferDone

Next ==
    \/ Quit
    \/ \E key \in Keys, late \in BOOLEAN : Halt(key, late)
    \/ \E key \in Keys, late \in BOOLEAN, motion_val \in BOOLEAN :
           Tick(key, late, motion_val)
    \/ EncodeBufferDone

Spec == Init /\ [][Next]_vars

\* The same program with an encoder that may also signal completions it does
\* not owe.
NextAck == Next \/ UnsolicitedDone
SpecAck == Init /\ [][NextAck]_vars

\* ------------------------------------------------- the two threads
\* The same loop with the event-loop thread and the encoder's thread
\* interleaved step by step.  The vote window is left out here: the debounced
\* decision and the hold counter of an iteration are inputs.

\* What the tail of EncodeBuffer does, in order: lock_guard, push, the end of
\* the guard's scope, encoder_->EncodeBuffer.
EncodeBufferSubmitFirst == <<"submit", "lock", "push", "unlock">>
EncodeBufferSteps == <<"lock", "push", "unlock", "submit">>

threadFrame == <<gap, minframes, origoutput, output, frames, frame_num, motion_test,
                 frame_count, movie_num, options, tickRecord, iterRecord,
                 signalVars, motionVars>>

InitThreads ==
    /\ Init
    /\ gap = MaxGap
    /\ minframes = MaxMinframes
    /\ options.frames = 0

\* The head of an iteration on the event-loop thread: it enters a transition
\* or the tail of EncodeBuffer.
Iterate(mt, fc) ==
    /\ pc = "running"
    /\ ebpc = 0
    /\ tpc = 0
    /\ count < MaxTicks
    /\ LET isStart == StartGuard(mt, motion_detected)
           isStop == ~isStart /\ StopGuard(mt, motion_detected, fc)
           fwd == Forwards(isStart, isStop)
       IN  /\ fwd => (inflight < MaxInflight /\ encoded < MaxInflight)
           /\ motion_detected' = RecordingAfter(isStart, isStop, motion_detected)
           /\ tpc' = IF fwd THEN 0 ELSE 1
           /\ ebpc' = IF fwd THEN 1 ELSE 0
    /\ lastOp' = "iterate"
    /\ UNCHANGED <<pc, count, encoder_, inflight, encode_buffer_queue_, queueRecord,
                   dpc, encode_buffer_queue_mutex_, outputObj,
                   encode_output_ready_callback_, encoderCallback, encoded, delivered,
                   threadFrame>>

\* One step of EncodeBuffer's tail on the event-loop thread.
EncodeBufferStep ==
    /\ pc = "running"
    /\ ebpc > 0
    /\ LET op == EncodeBufferSteps[ebpc]
           last == ebpc = Len(EncodeBufferSteps)
       IN  /\ op = "lock" => encode_buffer_queue_mutex_ = "free"
           /\ encode_buffer_queue_mutex_' =
                  IF op = "lock" THEN "main"
                  ELSE IF op = "unlock" THEN "free"
                  ELSE encode_buffer_queue_mutex_
           /\ encode_buffer_queue_' =
                  IF op = "push" THEN Push(encode_buffer_queue_, count)
                  ELSE encode_buffer_queue_
           /\ qBefore' = IF op = "push" THEN encode_buffer_queue_ ELSE qBefore
           /\ pushed' = IF op = "push" THEN Append(pushed, count) ELSE pushed
           /\ inflight' = IF op = "submit" THEN inflight + 1 ELSE inflight
           /\ encoded' = IF op = "submit" THEN encoded + 1 ELSE encoded
           /\ ebpc' = IF last THEN 0 ELSE ebpc + 1
           /\ count' = IF last THEN count + 1 ELSE count
           /\ lastOp' = op
    /\ UNCHANGED <<pc, motion_detected, encoder_, acked, tpc, dpc, outputObj,
                   encode_output_ready_callback_, encoderCallback, delivered,
                   threadFrame>>

\* One call of a transition on the event-loop thread.  Replacing the encoder
\* destroys the old one, which waits for its thread to leave the callback.
TransitionStep ==
    /\ pc = "running"
    /\ tpc > 0
    /\ LET call == TransitionCalls[tpc]
           last == tpc = Len(TransitionCalls)
       IN  /\ call = "StartEncoder" => dpc = "idle"
           /\ outputObj' = IF call = "OutputCreate" THEN outputObj + 1 ELSE outputObj
           /\ encode_output_ready_callback_' =
                  IF call = "SetEncodeOutputReadyCallback" THEN outputObj
                  ELSE encode_output_ready_callback_
           /\ encoder_' = IF call = "StartEncoder" THEN encoder_ + 1 ELSE encoder_
           /\ encoderCallback' =
                  IF call = "StartEncoder" THEN encode_output_ready_callback_
                  ELSE encoderCallback
           /\ inflight' = IF call = "StartEncoder" THEN 0 ELSE inflight
           /\ encoded' = IF call = "StartEncoder" THEN 0 ELSE encoded
           /\ tpc' = IF last THEN 0 ELSE tpc + 1
           /\ count' = IF last THEN count + 1 ELSE count
           /\ lastOp' = call
    /\ UNCHANGED <<pc, motion_detected, encode_buffer_queue_, queueRecord, ebpc, dpc,
                   encode_buffer_queue_mutex_, delivered, threadFrame>>

\* timeout || frameout || key: StopCamera, StopEncoder, return.
ThreadHalt(key, late) ==
    /\ pc = "running"
    /\ ebpc = 0
    /\ tpc = 0
    /\ dpc = "idle"
    /\ Halts(options, late, count, key)
    /\ pc' = "done"
    /\ encoder_' = 0
    /\ inflight' = 0
    /\ encoded' = 0
    /\ lastOp' = "halt"
    /\ UNCHANGED <<count, motion_detected, encode_buffer_queue_, queueRecord, ebpc, tpc,
                   dpc, encode_buffer_queue_mutex_, outputObj,
                   encode_output_ready_callback_, encoderCallback, delivered,
                   threadFrame>>

\* The encoder's thread enters encodeBufferDone for an input encoder_ holds
\* and takes the lock.
DoneLock ==
    /\ pc = "running"
    /\ encoder_ # 0
    /\ inflight > 0
    /\ dpc = "idle"
    /\ encode_buffer_queue_mutex_ = "free"
    /\ dpc' = "locked"
    /\ encode_buffer_queue_mutex_' = "encoder"
    /\ inflight' = inflight - 1
    /\ lastOp' = "donelock"
    /\ UNCHANGED <<pc, count, motion_detected, encoder_, encode_buffer_queue_,
                   queueRecord, ebpc, tpc, outputObj, encode_output_ready_callback_,
                   encoderCallback, encoded, delivered, threadFrame>>

\* The locked body of encodeBufferDone and the end of the guard's scope.
DoneBody ==
    /\ pc = "running"
    /\ dpc = "locked"
    /\ LET outcome == AckOutcome(encode_buffer_queue_)
       IN  /\ pc' = IF outcome = "throw" THEN "error" ELSE pc
           /\ encode_buffer_queue_' = IF outcome = "pop" THEN Pop(encode_buffer_queue_)
                                      ELSE encode_buffer_queue_
           /\ acked' = IF outcome = "pop" THEN acked + 1 ELSE acked
    /\ dpc' = "idle"
    /\ encode_buffer_queue_mutex_' = "free"
    /\ lastOp' = "ack"
    /\ UNCHANGED <<count, motion_detected, encoder_, inflight, qBefore, pushed, ebpc,
                   tpc, outputObj, encode_output_ready_callback_, encoderCallback,
                   encoded, delivered, threadFrame>>

\* The encoder's thread delivers an encoded output through its copy of the
\* callback.  If the Output object the copy is bound to has been destroyed
\* the call is undefined: the process crashes or goes on.
OutputReady ==
    /\ pc = "running"
    /\ encoder_ # 0
    /\ encoded > 0
    /\ encoded' = encoded - 1
    /\ delivered' = IF encoderCallback = outputObj THEN "alive" ELSE "destroyed"
    /\ pc' \in (IF encoderCallback = outputObj THEN {pc} ELSE {pc, "crashed"})
    /\ lastOp' = "output"
    /\ UNCHANGED <<count, motion_detected, encoder_, inflight, encode_buffer_queue_,
                   queueRecord, ebpc, tpc, dpc, encode_buffer_queue_mutex_, outputObj,
                   encode_output_ready_callback_, encoderCallback, threadFrame>>

NextThreads ==
    \/ \E mt \in BOOLEAN, fc \in 0..1 : Iterate(mt, fc)
    \/ EncodeBufferStep
    \/ TransitionStep
    \/ \E key \in Keys, late \in BOOLEAN : ThreadHalt(key, late)
    \/ DoneLock
    \/ DoneBody
    \/ OutputReady

SpecThreads == InitThreads /\ [][NextThreads]_vars

\* ------------------------------------------------------------ signals
\* The head of the loop with the signal option on, statement by statement,
\* and the signal handler, which runs between any two of the statements.
\* The rest of an iteration is left out.
signalFrame == <<gap, minframes, origoutput, output, frames, frame_num, motion_test,
                 motion_detected, frame_count, movie_num, encoder_, inflight,
                 encode_buffer_queue_, options, tickRecord, queueRecord, iterRecord,
                 threadVars, motionVars>>

\* default_signal_handler
Deliver(sig) ==
    /\ pc = "running"
    /\ sent < MaxSignals
    /\ signal_received' = sig
    /\ stopOwed' = (stopOwed \/ sig = SIGUSR2)
    /\ trigOwed' = (trigOwed \/ sig = SIGUSR1)
    /\ sent' = sent + 1
    /\ lastOp' = "signal"
    /\ UNCHANGED <<pc, count, spc, polledKey, signalFrame>>

\* A frame arrived; get_key_or_signal: int key = 0, or the first character of
\* a typed line.
GetKey(pressed) ==
    /\ pc = "running"
    /\ spc = "keypress"
    /\ count < MaxTicks
    /\ polledKey' = pressed
    /\ spc' = "test1"
    /\ lastOp' = "keypress"
    /\ UNCHANGED <<pc, count, signal_received, stopOwed, trigOwed, sent, signalFrame>>

\* if (signal_received == SIGUSR1) key = '\n';
TestUsr1 ==
    /\ pc = "running"
    /\ spc = "test1"
    /\ polledKey' = IF signal_received = SIGUSR1 THEN KeyNewline ELSE polledKey
    /\ spc' = IF signal_received = SIGUSR1 THEN "clear" ELSE "test2"
    /\ lastOp' = "test1"
    /\ UNCHANGED <<pc, count, signal_received, stopOwed, trigOwed, sent, signalFrame>>

\* else if (signal_received == SIGUSR2) key = 'x';
TestUsr2 ==
    /\ pc = "running"
    /\ spc = "test2"
    /\ polledKey' = IF signal_received = SIGUSR2 THEN KeyLowerX ELSE polledKey
    /\ spc' = "clear"
    /\ lastOp' = "test2"
    /\ UNCHANGED <<pc, count, signal_received, stopOwed, trigOwed, sent, signalFrame>>

\* signal_received = 0; return key;
ClearSignal ==
    /\ pc = "running"
    /\ spc = "clear"
    /\ signal_received' = 0
    /\ spc' = "act"
    /\ lastOp' = "clear"
    /\ UNCHANGED <<pc, count, polledKey, stopOwed, trigOwed, sent, signalFrame>>

\* if (key == '\n') output->Signal(); then the halt test; else the iteration
\* goes on to its end.
ActOnKey(late) ==
    /\ pc = "running"
    /\ spc = "act"
    /\ trigOwed' = IF polledKey = KeyNewline THEN FALSE ELSE trigOwed
    /\ IF Halts(options, late, count, polledKey)
       THEN /\ pc' = "done"
            /\ stopOwed' = FALSE
            /\ UNCHANGED <<count, spc>>
       ELSE /\ count' = count + 1
            /\ spc' = "keypress"
            /\ UNCHANGED <<pc, stopOwed>>
    /\ lastOp' = "act"
    /\ UNCHANGED <<signal_received, polledKey, sent, signalFrame>>

NextSignal ==
    \/ \E sig \in {SIGUSR1, SIGUSR2} : Deliver(sig)
    \/ \E pressed \in Keys : GetKey(pressed)
    \/ TestUsr1
    \/ TestUsr2
    \/ ClearSignal
    \/ \E late \in BOOLEAN : ActOnKey(late)

SpecSignal == InitThreads /\ [][NextSignal]_vars

\* ------------------------------------------------- libcamera_motion
\* The int / unsigned int arithmetic of the guard, exact on 32 bits: a value
\* modulo 2^32 is the pair of its 16-bit halves.
Half == 2^16

\* d converted to unsigned int, for -2^31 <= d < 2^31.
AsUnsigned(d) ==
    IF d >= 0 THEN <<d \div Half, d % Half>>
    ELSE <<Half - 1 - ((-d - 1) \div Half), Half - 1 - ((-d - 1) % Half)>>

\* u >= n as unsigned ints, for 0 <= n < 2^16.
UnsignedGeq(u, n) == u[1] > 0 \/ u[2] >= n

\* (current_capture_frame - last_capture_frame >= 50) && motion_val
RearmGuard(current_capture_frame, last, motion_val) ==
    UnsignedGeq(AsUnsigned(current_capture_frame - last), RearmFrames) /\ motion_val

motionFrame == <<gap, minframes, origoutput, output, frames, frame_num, motion_test,
                 motion_detected, frame_count, movie_num, encoder_, inflight,
                 encode_buffer_queue_, options, tickRecord, queueRecord, iterRecord,
                 threadVars, signalVars>>

\* The sequence number the first request carries after StartCamera: the
\* numbering restarts, or goes on.
AfterRestart(seq) == {0, seq + 1}

\* An iteration with the video stream configured.  advance: how far the
\* sequence number moves to the next request (more than 1 when frames drop).
VideoFrame(k, late, motion_val, advance) ==
    /\ pc = "running"
    /\ stream = "video"
    /\ sequence < MaxSeq
    /\ last_capture < MaxCaptures
    /\ ~Halts(options, late, count, k)
    /\ LET current_capture_frame == sequence
           fires == RearmGuard(current_capture_frame, last_capture_frame, motion_val)
       IN  /\ last_capture_frame' = IF fires THEN current_capture_frame
                                    ELSE last_capture_frame
           /\ stream' = IF fires THEN "still" ELSE "video"
           /\ sequence' \in (IF fires THEN AfterRestart(sequence)
                             ELSE {sequence + advance})
           /\ lastOp' = IF fires THEN "trigger" ELSE "push"
           /\ curSeq' = current_capture_frame
    /\ prevCaptureFrame' = last_capture_frame
    /\ voteSeen' = motion_val
    /\ count' = count + 1
    /\ UNCHANGED <<pc, last_capture, motionFrame>>

\* An iteration with the still stream configured: save the image and go back
\* to video.
StillFrame(k, late) ==
    /\ pc = "running"
    /\ stream = "still"
    /\ ~Halts(options, late, count, k)
    /\ last_capture' = last_capture + 1
    /\ stream' = "video"
    /\ sequence' \in AfterRestart(sequence)
    /\ lastOp' = "still"
    /\ count' = count + 1
    /\ UNCHANGED <<pc, last_capture_frame, curSeq, prevCaptureFrame, voteSeen,
                   motionFrame>>

\* timeout || frameout || key: StopCamera, StopEncoder, return.
MotionHalt(k, late) ==
    /\ pc = "running"
    /\ Halts(options, late, count, k)
    /\ pc' = "done"
    /\ lastOp' = "halt"
    /\ UNCHANGED <<count, motionVars, motionFrame>>

NextMotion ==
    \/ \E k \in Keys, late \in BOOLEAN, motion_val \in BOOLEAN, advance \in {1, SeqJump} :
           VideoFrame(k, late, motion_val, advance)
    \/ \E k \in Keys, late \in BOOLEAN : StillFrame(k, late)
    \/ \E k \in Keys, late \in BOOLEAN : MotionHalt(k, late)

SpecMotion == InitThreads /\ [][NextMotion]_vars

\* ------------------------------------------------------------- properties
AnyTrue(w) == \E i \in 1..Len(w) : w[i]

\* C1: whenever the debounced decision is computed (gap >= 1), it is true iff
\* at least one vote observed since the previous computation is true; no
\* older vote influences it.
C1_AggregateIsOrOfWindow ==
    (gap >= 1 /\ computed) => (motion_test <=> AnyTrue(window))

\* C2: for gap >= 1 the decision is computed on processed frames number gap,
\* 2*gap, 3*gap, ... and on no other frame.
C2_ComputedOncePerGapFrames ==
    (gap >= 1 /\ processed >= 1) => (computed <=> processed % gap = 0)

\* C3: Idle->Recording and Recording->Idle strictly alternate, starting with
\* Idle->Recording, and movie_num counts the Idle->Recording transitions.
C3_TransitionsAlternate ==
    /\ lastTransition = "start" => prevTransition \in {"none", "stop"}
    /\ lastTransition = "stop" => prevTransition = "start"
    /\ lastTransition = "none" => prevTransition = "none"
    /\ movie_num = starts

C3_SecondSession ==
    /\ starts = 2
    /\ fired = "start"
    /\ prevTransition = "stop"

\* C4: after the iteration on which Idle->Recording fires the hold counter
\* equals minframes, it never goes below 0, and at least minframes frames are
\* processed in Recording after that iteration before Recording->Idle fires.
C4_HoldStartsAtMinframes ==
    /\ (pc = "running" /\ fired = "start") => frame_count = minframes
    /\ fired = "stop" => recFrames >= minframes
    /\ frame_count >= 0

\* C5: an iteration that starts in Recording with hold counter k > 0 forwards
\* its frame, stays in Recording and leaves the counter at k - 1; one that
\* starts in Recording with the counter at 0 and sees the debounced decision
\* false fires Recording->Idle.
C5_HoldCountsDownThenStops ==
    (processed >= 1 /\ recordingBefore /\ pc # "error") =>
        /\ holdBefore > 0 =>
               /\ fired = "none"
               /\ forwarded
               /\ motion_detected
               /\ frame_count = holdBefore - 1
        /\ (holdBefore = 0 /\ ~motion_test) =>
               /\ fired = "stop"
               /\ ~motion_detected

C5_StopAfterTwoHeldFrames ==
    /\ fired = "stop"
    /\ minframes = 3
    /\ recFrames = 2
    /\ holdBefore = 0

C7_OutputIsOriginalIffIdle ==
    pc = "running" =>
        /\ (output = origoutput) <=> ~motion_detected
        /\ motion_detected => \E t \in 1..MaxClock :
               output = <<SaveDir, "/", t, "-motionmov.h264">>

C7_BackToIdle ==
    /\ pc = "running"
    /\ fired = "stop"
    /\ output = origoutput

\* C8: an iteration that reaches the state machine and completes forwards its
\* frame (one push of that frame) iff no transition fired on it.
C8_ForwardIffNoTransition ==
    (processed >= 1 /\ pc # "error") =>
        /\ forwarded <=> fired = "none"
        /\ forwarded <=> (pushed # <<>> /\ pushed[Len(pushed)] = count - 1)

C8_ForwardedWhileRecording ==
    /\ forwarded
    /\ recordingBefore
    /\ motion_detected
    /\ lastTransition = "start"

\* C9: once gap (>= 1) frames in a row have voted false, the debounced
\* decision is false.
C9_ReleaseWithinGapFrames ==
    (gap >= 1 /\ falseRun >= gap) => ~motion_test

\* C10 as claimed: an acknowledgement that immediately follows a push leaves
\* the queue as it was before the push.
C10_PushThenAckRestoresQueue ==
    [][(lastOp = "push" /\ lastOp' = "ack" /\ pc' = "running")
           => encode_buffer_queue_' = qBefore]_vars

\* C10 as amended: the queue holds exactly the pushed frames not yet
\* acknowledged, in push order; each acknowledgement removes the oldest one;
\* an acknowledgement that immediately follows a push restores the queue of
\* before the push iff that queue was empty.
C10_QueueIsFifoOfUnacked ==
    /\ [](encode_buffer_queue_ = SubSeq(pushed, acked + 1, Len(pushed)))
    /\ [][(lastOp' = "ack" /\ pc' = "running") =>
             /\ encode_buffer_queue_ # <<>>
             /\ encode_buffer_queue_' = Tail(encode_buffer_queue_)
             /\ lastOp = "push" =>
                    (encode_buffer_queue_' = qBefore <=> qBefore = <<>>)]_vars

C10_AckWithOlderFrameQueued ==
    /\ lastOp = "ack"
    /\ acked >= 1
    /\ qBefore # <<>>
    /\ encode_buffer_queue_ = <<count - 1>>


\* C11: an acknowledgement that finds the queue empty is no silent no-op: it
\* raises the error that ends the run (no step follows it) and leaves the
\* queue empty.
C11_EmptyAckIsFatal ==
    /\ [][(lastOp' = "ack" /\ encode_buffer_queue_ = <<>>) =>
             (pc' = "error" /\ encode_buffer_queue_' = <<>> /\ acked' = acked)]_vars
    /\ [][pc = "running"]_vars

C11_EmptyAckRaised ==
    /\ lastOp = "ack"
    /\ pc = "error"
    /\ encode_buffer_queue_ = <<>>
    /\ processed >= 1
\* C12: with frames = 0 and timeout > 0, a frame event that arrives after the
\* timeout has elapsed ends the loop, in Idle as in Recording: that iteration
\* calls StopCamera and StopEncoder once each and nothing else, aggregates no
\* vote, fires no transition, forwards no frame, and no iteration follows.
C12_DeadlineEndsLoop ==
    /\ []((options.frames = 0 /\ options.timeout > 0 /\ lateSeen) =>
             /\ pc = "done"
             /\ lastOp = "halt"
             /\ calls = <<"StopCamera", "StopEncoder">>
             /\ ExitStatus(pc) = 0)
    /\ [][lastOp' = "halt" =>
             UNCHANGED <<processed, frames, frame_num, motion_test, motion_detected,
                         frame_count, movie_num, output, count, starts,
                         encode_buffer_queue_, pushed>>]_vars
    /\ [][pc # "done"]_vars

C12_DeadlineWhileHolding ==
    /\ lastOp = "halt"
    /\ lateSeen
    /\ options.frames = 0
    /\ motion_detected
    /\ frame_count > 0

\* C13: a transition whose call throws ends the run: the error leaves the
\* loop (exit status -1), the calls stop at the one that threw, no step
\* follows, and what the transition had already assigned stays assigned: the
\* recording flag, the hold counter, the session counter and, once Teardown
\* has returned, the output path.
C13_FailedTransitionIsFatal ==
    /\ [](failedAt # "none" =>
             /\ pc = "error"
             /\ ExitStatus(pc) = -1
             /\ fired \in {"start", "stop"}
             /\ calls # <<>> /\ calls[Len(calls)] = failedAt
             /\ Len(calls) < Len(TransitionCalls) \/ failedAt = "StartCamera"
             /\ motion_detected = ~recordingBefore
             /\ motion_detected = (fired = "start")
             /\ fired = "start" => (frame_count = minframes /\ movie_num = starts)
             /\ fired = "stop" => frame_count = holdBefore
             /\ failedAt \in {"StopCamera", "Teardown"} =>
                    (output = origoutput <=> recordingBefore = FALSE)
             /\ failedAt \notin {"StopCamera", "Teardown"} =>
                    (output = origoutput <=> recordingBefore = TRUE))
    /\ [][pc # "error"]_vars

C13_StartFailedAtOutputCreate ==
    /\ failedAt = "OutputCreate"
    /\ fired = "start"
    /\ motion_detected
    /\ minframes = 3
    /\ frame_count = 3
    /\ output # origoutput
    /\ pc = "error"
\* C14: a configured gap of 0 is rejected before the event loop processes any
\* frame.
C14_GapZeroRejected ==
    gap = 0 => processed = 0

\* C15: for gap >= 1 the cursor at which the next vote is stored lies within
\* 0..gap-1, and it is 0 after the iteration that completed a window.
C15_CursorStaysInWindow ==
    (gap >= 1 /\ pc = "running") =>
        /\ frame_num \in 0..(gap - 1)
        /\ computed => frame_num = 0

\* C16: while the loop runs the queue holds exactly the frames the current
\* encoder instance was given and has not acknowledged, so that each
\* acknowledgement removes the frame it is for and no frame of a destroyed
\* encoder instance stays queued.
C16_QueueHoldsCurrentEncoderInputs ==
    pc = "running" =>
        encode_buffer_queue_ = SubSeq(pushed, Len(pushed) - inflight + 1, Len(pushed))
\* C17: the encoder never delivers an encoded output to an Output object that
\* has been destroyed: whenever its callback fires, the object the callback is
\* bound to is the one still alive.
C17_OutputDeliveredToLiveSink ==
    delivered # "destroyed"

\* C19: with an encoder that acknowledges each input it was given at most
\* once, encodeBufferDone never finds the queue empty, in any interleaving of
\* the two threads and across transitions: the acknowledgements never exceed
\* the pushes, and push and pop exclude each other.
C19_EmptyQueueErrorUnreachable ==
    /\ dpc = "locked" => encode_buffer_queue_ # <<>>
    /\ lastOp = "ack" => pc # "error"
    /\ acked + (IF dpc = "locked" THEN 1 ELSE 0) <= Len(pushed)
    /\ (encode_buffer_queue_mutex_ = "encoder") = (dpc = "locked")
    /\ (encode_buffer_queue_mutex_ = "main") =
           (ebpc > 0 /\ EncodeBufferSteps[ebpc] \in {"push", "unlock"})

\* The encoder's thread is inside encodeBufferDone, for an input of the second
\* encoder, while the event-loop thread waits for the lock.
C19_AckWhileMainWaitsForLock ==
    /\ dpc = "locked"
    /\ encoder_ = 2
    /\ ebpc > 0
    /\ EncodeBufferSteps[ebpc] = "lock"
\* C18: no stop or trigger request is lost: a SIGUSR2 delivered while the loop
\* runs stays observable (in signal_received, or in the key the running poll
\* has taken from it) until the loop halts, and a SIGUSR1 until Signal() is
\* called.
C18_NoRequestLost ==
    pc = "running" =>
        /\ stopOwed =>
               \/ signal_received = SIGUSR2
               \/ spc \in {"clear", "act"} /\ polledKey \in {KeyLowerX, KeyUpperX}
        /\ trigOwed =>
               \/ signal_received = SIGUSR1
               \/ spc \in {"clear", "act"} /\ polledKey = KeyNewline

\* C20: the switch to still capture fires on a video frame only if the frame's
\* vote is true and its sequence number is at least 50 greater than the one
\* of the previous triggering frame (0 initially).
C20_RearmSuppression ==
    lastOp = "trigger" => (voteSeen /\ curSeq >= prevCaptureFrame + RearmFrames)
====
